---- MODULE Spec2Model ----
(***************************************************************************)
(* Model of src/app.py: the Flask route index(), the scraper               *)
(* fetch_internships(), the CSV filter get_job_suggestions() and the       *)
(* results section of HTML_TEMPLATE.                                       *)
(*                                                                         *)
(* Python strings are sequences of one-character strings, so that          *)
(* str.lower, str.strip, str.replace and str.split are computed            *)
(* character by character.                                                 *)
(***************************************************************************)
EXTENDS Integers, Sequences, FiniteSets, TLC

VARIABLES
    job_listings,    \* rows of ./job_listings.csv as load_job_listings() reads them
    net,             \* what requests.get(url) will do: raise, or a response
    request,         \* the HTTP request the route is about to receive: method and form
    method,          \* "none" (nothing handled yet), "GET", "POST", or "CALL" (direct call)
    skills,          \* the skills list of the current request / call
    location,        \* the location argument (None or a string)
    url,             \* URL built by fetch_internships (<<>> when not called)
    gets,            \* outbound GETs performed while handling the current request / call
    fetch_calls,     \* invocations of fetch_internships in the current request
    matcher_calls,   \* skills lists get_job_suggestions was invoked with in the current request
    internships,     \* index(): internships / fetch_internships(): return value
    job_suggestions, \* index(): job_suggestions / get_job_suggestions(): return value
    raised,          \* "none", or the exception that left the handler / call
    page             \* what render_template_string produced (NoPage when nothing rendered)

vars == <<job_listings, net, request, method, skills, location, url, gets, fetch_calls,
          matcher_calls, internships, job_suggestions, raised, page>>

----------------------------------------------------------------------------
(* Bounds of the model *)

MaxRows == 12        \* rows in the dataset of the matcher specification
MaxBlocks == 11      \* listing blocks in a fetched page of the fetcher specification
MaxOdd == 2          \* blocks of a page that are not plain well-formed blocks
MaxInput == 3        \* characters in the submitted skills field
MaxLoc == 3          \* characters in a location
MaxHandlerRows == 2  \* rows in the dataset of the handler specification

(* Program constants *)

SuggestionLimit == 10
ListingLimit == 10

----------------------------------------------------------------------------
(* Python str operations *)

Lower(c) ==
    CASE c = "A" -> "a"
      [] c = "B" -> "b"
      [] c = "C" -> "c"
      [] c = "N" -> "n"
      [] c = "Y" -> "y"
      [] OTHER -> c

\* s.lower()
StrLower(s) == [i \in 1..Len(s) |-> Lower(s[i])]

\* s.replace(' ', '-')
StrReplaceSpace(s) == [i \in 1..Len(s) |-> IF s[i] = " " THEN "-" ELSE s[i]]

IsSpace(c) == c = " "

RECURSIVE LStrip(_)
LStrip(s) == IF s /= <<>> /\ IsSpace(Head(s)) THEN LStrip(Tail(s)) ELSE s

RECURSIVE RStrip(_)
RStrip(s) ==
    IF s /= <<>> /\ IsSpace(s[Len(s)]) THEN RStrip(SubSeq(s, 1, Len(s) - 1)) ELSE s

\* s.strip()
StrStrip(s) == RStrip(LStrip(s))

StartsWith(s, sep) == Len(s) >= Len(sep) /\ SubSeq(s, 1, Len(sep)) = sep

\* s.split(sep): the pieces between the non-overlapping occurrences of sep,
\* found left to right; cur is the piece being read.
RECURSIVE SplitFrom(_, _, _)
SplitFrom(s, sep, cur) ==
    IF s = <<>> THEN <<cur>>
    ELSE IF StartsWith(s, sep)
         THEN <<cur>> \o SplitFrom(SubSeq(s, Len(sep) + 1, Len(s)), sep, <<>>)
         ELSE SplitFrom(Tail(s), sep, Append(cur, Head(s)))

StrSplit(s, sep) == SplitFrom(s, sep, <<>>)

Range(f) == {f[i] : i \in DOMAIN f}

----------------------------------------------------------------------------
(* get_job_suggestions *)

\* row.get(key, default)
RowGet(row, key, default) == IF key \in DOMAIN row THEN row[key] ELSE default

\* [skill.strip().lower() for skill in row['Required_Skills'].split(', ')]
required_skills(row) ==
    LET parts == StrSplit(row["Required_Skills"], <<",", " ">>)
    IN  [i \in 1..Len(parts) |-> StrLower(StrStrip(parts[i]))]

\* [skill.strip().lower() for skill in skills]
user_skills(sk) == [i \in 1..Len(sk) |-> StrLower(StrStrip(sk[i]))]

\* the comparison without normalising the user's skills
skill_match_exact(sk, row) ==
    \E i \in 1..Len(sk) : sk[i] \in Range(required_skills(row))

\* any(user_skill in required_skills for user_skill in user_skills)
skill_match(sk, row) ==
    \E i \in 1..Len(sk) : user_skills(sk)[i] \in Range(required_skills(row))

Suggestion(row) ==
    [title    |-> row["Job_Title"],
     company  |-> RowGet(row, "Company", "N/A"),
     location |-> RowGet(row, "Location", "N/A"),
     skills   |-> row["Required_Skills"]]

\* the loop over job_listings.iterrows(), appending the matching rows
RECURSIVE SuggestionsLoop(_, _, _)
SuggestionsLoop(sk, rows, suggestions) ==
    IF rows = <<>> THEN suggestions
    ELSE SuggestionsLoop(sk, Tail(rows),
             IF skill_match(sk, Head(rows))
             THEN Append(suggestions, Suggestion(Head(rows)))
             ELSE suggestions)

\* suggestions[:n]
Prefix(s, n) == SubSeq(s, 1, IF Len(s) < n THEN Len(s) ELSE n)

\* the function without the final slice
get_job_suggestions_unlimited(sk, rows) == SuggestionsLoop(sk, rows, <<>>)

\* lines 48-68

get_job_suggestions(sk, rows) ==
    Prefix(SuggestionsLoop(sk, rows, <<>>), SuggestionLimit)

----------------------------------------------------------------------------
(* fetch_internships *)

\* an optional string: None, or a str
None == [isNone |-> TRUE, str |-> <<>>]
Some(s) == [isNone |-> FALSE, str |-> s]

\* truth value of an optional string: None and '' are false
Truthy(opt) == ~opt.isNone /\ opt.str /= <<>>

InternshipWord == <<"i", "n", "t", "e", "r", "n", "s", "h", "i", "p">>
AnyWord == <<"a", "n", "y">>
UrlBase == "https://internshala.com/internships/keywords-"
LocationPrefix == "/location-"
SiteBase == "https://internshala.com"

\* the URL with the sentinel compared case-sensitively
BuildUrl_any_exact(sk, loc) ==
    LET primary_skill == IF sk /= <<>> THEN sk[1] ELSE InternshipWord
        query == StrLower(StrReplaceSpace(primary_skill))
        base == <<UrlBase>> \o query
    IN  IF Truthy(loc) /\ loc.str /= AnyWord
        THEN base \o <<LocationPrefix>> \o StrLower(StrReplaceSpace(loc.str))
        ELSE base

\* lines 18-23: the search URL, the two literals kept as single tokens
BuildUrl(sk, loc) ==
    LET primary_skill == IF sk /= <<>> THEN sk[1] ELSE InternshipWord
        query == StrLower(StrReplaceSpace(primary_skill))
        base == <<UrlBase>> \o query
    IN  IF Truthy(loc) /\ StrLower(loc.str) /= AnyWord
        THEN base \o <<LocationPrefix>> \o StrLower(StrReplaceSpace(loc.str))
        ELSE base

\* listing.find('a'): the first anchor of the block, if any
HasAnchor(listing) == listing.anchors /= <<>>
FirstAnchor(listing) == listing.anchors[1]

\* listing.find('a', class_='link_display_like_text')
HasCompanyTag(listing) == \E i \in 1..Len(listing.anchors) : listing.anchors[i].company

\* lines 33-37: the body of the inner try, with the exception it raises.
\* find() returns None when nothing matches: None.get_text is an
\* AttributeError, None['href'] a TypeError, and a tag without the
\* attribute raises KeyError on ['href'].
ParseListing(listing) ==
    IF ~listing.h3 THEN [exc |-> "AttributeError", entry |-> <<>>]
    ELSE IF ~HasAnchor(listing) THEN [exc |-> "TypeError", entry |-> <<>>]
    ELSE IF ~FirstAnchor(listing).href THEN [exc |-> "KeyError", entry |-> <<>>]
    ELSE [exc |-> "none",
          entry |-> <<[title   |-> listing.id,
                       company |-> IF HasCompanyTag(listing) THEN "Co" ELSE "N/A",
                       link    |-> <<SiteBase, listing.id>>]>>]

\* lines 31-40: the loop; AttributeError is caught per block, anything
\* else leaves the loop
RECURSIVE ListingsLoop(_, _)
ListingsLoop(listings, acc) ==
    IF listings = <<>> THEN [exc |-> "none", internships |-> acc]
    ELSE LET r == ParseListing(Head(listings))
         IN  IF r.exc = "none" THEN ListingsLoop(Tail(listings), acc \o r.entry)
             ELSE IF r.exc = "AttributeError" THEN ListingsLoop(Tail(listings), acc)
             ELSE [exc |-> r.exc, internships |-> <<>>]

\* the function looping over all of listings instead of listings[:10]
fetch_internships_noslice(sk, loc, netw) ==
    LET u == BuildUrl(sk, loc)
    IN  IF netw.raises
        THEN [url |-> u, gets |-> 1, result |-> <<>>,
              logged |-> "ConnectionError", raised |-> "none"]
        ELSE LET r == ListingsLoop(netw.body, <<>>)
             IN  IF r.exc = "none"
                 THEN [url |-> u, gets |-> 1, result |-> r.internships,
                       logged |-> "none", raised |-> "none"]
                 ELSE [url |-> u, gets |-> 1, result |-> <<>>,
                       logged |-> r.exc, raised |-> "none"]

\* the function without the outer try: the exception reaches the caller
fetch_internships_uncaught(sk, loc, netw) ==
    LET u == BuildUrl(sk, loc)
    IN  IF netw.raises
        THEN [url |-> u, gets |-> 1, result |-> <<>>,
              logged |-> "none", raised |-> "ConnectionError"]
        ELSE LET r == ListingsLoop(Prefix(netw.body, ListingLimit), <<>>)
             IN  IF r.exc = "none"
                 THEN [url |-> u, gets |-> 1, result |-> r.internships,
                       logged |-> "none", raised |-> "none"]
                 ELSE [url |-> u, gets |-> 1, result |-> <<>>,
                       logged |-> "none", raised |-> r.exc]

\* the function repeating the GET once after a network error
fetch_internships_retry(sk, loc, netw) ==
    LET u == BuildUrl(sk, loc)
    IN  IF netw.raises
        THEN [url |-> u, gets |-> 2, result |-> <<>>,
              logged |-> "ConnectionError", raised |-> "none"]
        ELSE LET r == ListingsLoop(Prefix(netw.body, ListingLimit), <<>>)
             IN  IF r.exc = "none"
                 THEN [url |-> u, gets |-> 1, result |-> r.internships,
                       logged |-> "none", raised |-> "none"]
                 ELSE [url |-> u, gets |-> 1, result |-> <<>>,
                       logged |-> r.exc, raised |-> "none"]

\* lines 25-46: one requests.get, then the parse; every exception ends in
\* [] (logged: what the outer except printed; raised: what reaches the caller)
fetch_internships(sk, loc, netw) ==
    LET u == BuildUrl(sk, loc)
    IN  IF netw.raises
        THEN [url |-> u, gets |-> 1, result |-> <<>>,
              logged |-> "ConnectionError", raised |-> "none"]
        ELSE LET r == ListingsLoop(Prefix(netw.body, ListingLimit), <<>>)
             IN  IF r.exc = "none"
                 THEN [url |-> u, gets |-> 1, result |-> r.internships,
                       logged |-> "none", raised |-> "none"]
                 ELSE [url |-> u, gets |-> 1, result |-> <<>>,
                       logged |-> r.exc, raised |-> "none"]

----------------------------------------------------------------------------
(* HTML_TEMPLATE, lines 207-282, and index *)

NoPage ==
    [rendered |-> FALSE, results_section |-> FALSE,
     internship_cards |-> <<>>, internship_msg |-> FALSE,
     job_cards |-> <<>>, job_msg |-> FALSE]

InternshipCard(e) ==
    [title |-> e.title, company_shown |-> e.company /= "N/A", link |-> e.link]

JobCard(j) ==
    [title |-> j.title, company_shown |-> j.company /= "N/A",
     location_shown |-> j.location /= "N/A", skills |-> j.skills]

\* the template with the internships panel testing job_suggestions
Render_wrong_test(ints, jobs) ==
    IF ints /= <<>> \/ jobs /= <<>>
    THEN [rendered |-> TRUE, results_section |-> TRUE,
          internship_cards |-> IF jobs /= <<>>
                               THEN [i \in 1..Len(ints) |-> InternshipCard(ints[i])]
                               ELSE <<>>,
          internship_msg |-> jobs = <<>>,
          job_cards |-> [i \in 1..Len(jobs) |-> JobCard(jobs[i])],
          job_msg |-> jobs = <<>>]
    ELSE [rendered |-> TRUE, results_section |-> FALSE,
          internship_cards |-> <<>>, internship_msg |-> FALSE,
          job_cards |-> <<>>, job_msg |-> FALSE]

\* the results section: what each of the two panels shows
Render(ints, jobs) ==
    IF ints /= <<>> \/ jobs /= <<>>
    THEN [rendered |-> TRUE, results_section |-> TRUE,
          internship_cards |-> [i \in 1..Len(ints) |-> InternshipCard(ints[i])],
          internship_msg |-> ints = <<>>,
          job_cards |-> [i \in 1..Len(jobs) |-> JobCard(jobs[i])],
          job_msg |-> jobs = <<>>]
    ELSE [rendered |-> TRUE, results_section |-> FALSE,
          internship_cards |-> <<>>, internship_msg |-> FALSE,
          job_cards |-> <<>>, job_msg |-> FALSE]

\* [skill.strip() for skill in skills_input.split(',') if skill.strip()]
RECURSIVE StripNonEmpty(_)
StripNonEmpty(parts) ==
    IF parts = <<>> THEN <<>>
    ELSE IF StrStrip(Head(parts)) /= <<>>
         THEN <<StrStrip(Head(parts))>> \o StripNonEmpty(Tail(parts))
         ELSE StripNonEmpty(Tail(parts))

\* the parse keeping the empty tokens
ParseSkills_keep_empty(skills_input) ==
    LET parts == StrSplit(skills_input, <<",">>)
    IN  [i \in 1..Len(parts) |-> StrStrip(parts[i])]

ParseSkills(skills_input) == StripNonEmpty(StrSplit(skills_input, <<",">>))

\* index(), lines 304-325. form.skills is request.form.get('skills'):
\* None when the field is absent, and None.split raises AttributeError,
\* which leaves the handler (nothing is rendered).
index(meth, form, rows, netw) ==
    LET idle == [skills |-> <<>>, location |-> None, url |-> <<>>, gets |-> 0,
                 fetch_calls |-> 0, matcher_calls |-> <<>>, internships |-> <<>>,
                 job_suggestions |-> <<>>, raised |-> "none",
                 page |-> Render(<<>>, <<>>)]
    IN  IF meth /= "POST" THEN idle
        ELSE IF form.skills.isNone
        THEN [idle EXCEPT !.location = form.location, !.raised = "AttributeError",
                          !.page = NoPage]
        ELSE LET sk == ParseSkills(form.skills.str)
                 f == fetch_internships(sk, form.location, netw)
                 ints == IF sk /= <<>> THEN f.result ELSE <<>>
                 jobs == get_job_suggestions(sk, rows)
             IN  IF sk /= <<>> /\ f.raised /= "none"
                 THEN [idle EXCEPT !.skills = sk, !.location = form.location,
                                   !.url = f.url, !.gets = f.gets, !.fetch_calls = 1,
                                   !.raised = f.raised, !.page = NoPage]
                 ELSE
                 [skills |-> sk, location |-> form.location,
                  url |-> IF sk /= <<>> THEN f.url ELSE <<>>,
                  gets |-> IF sk /= <<>> THEN f.gets ELSE 0,
                  fetch_calls |-> IF sk /= <<>> THEN 1 ELSE 0,
                  matcher_calls |-> <<sk>>,
                  internships |-> ints,
                  job_suggestions |-> jobs,
                  raised |-> "none",
                  page |-> Render(ints, jobs)]

----------------------------------------------------------------------------
(* Inputs *)

\* all sequences over S of length at most n
SeqsUpTo(S, n) == UNION {[1..k -> S] : k \in 0..n}

CellAB == <<"A", ",", " ", "b", " ">>     \* "A, b "
CellCB == <<"c", ",", "b">>               \* "c,b": no ', ' in it, one token
Cells == {CellAB, CellCB}

\* row i of the file; Company and Location are optional columns
MkRow(i, cell, optional) ==
    IF optional
    THEN [Job_Title |-> i, Required_Skills |-> cell, Company |-> "Acme", Location |-> "Pune"]
    ELSE [Job_Title |-> i, Required_Skills |-> cell]

Datasets(n, options) ==
    {[i \in DOMAIN cells |-> MkRow(i, cells[i], optional)] :
        cells \in SeqsUpTo(Cells, n), optional \in options}

SkillLists ==
    {<<>>,
     << <<" ", "a">> >>,
     << <<"c">>, <<" ", "B">> >>,
     << <<"x">>, <<"C", ",", "b">> >>}

\* listing block number i of a page
Block(i, kind) ==
    CASE kind = "ok"       -> [id |-> i, h3 |-> TRUE,
                               anchors |-> <<[company |-> TRUE, href |-> TRUE]>>]
      [] kind = "plain"    -> [id |-> i, h3 |-> TRUE,
                               anchors |-> <<[company |-> FALSE, href |-> TRUE]>>]
      [] kind = "noTitle"  -> [id |-> i, h3 |-> FALSE,
                               anchors |-> <<[company |-> TRUE, href |-> TRUE]>>]
      [] kind = "noAnchor" -> [id |-> i, h3 |-> TRUE, anchors |-> <<>>]
      [] kind = "noHref"   -> [id |-> i, h3 |-> TRUE,
                               anchors |-> <<[company |-> FALSE, href |-> FALSE]>>]

OddKinds == {"plain", "noTitle", "noAnchor", "noHref"}

PageOf(kinds) == [i \in DOMAIN kinds |-> Block(i, kinds[i])]

\* the kinds of a page of k blocks, those at the positions O given by f
\* and the others "ok"
PageKinds(k, O, f) == [i \in 1..k |-> IF i \in O THEN f[i] ELSE "ok"]

\* the sets of at most m positions among 1..k
OddPositions(k, m) == {X \in SUBSET (1..k) : Cardinality(X) <= m}

ConnectionRefused == [raises |-> TRUE, status |-> 0, body |-> <<>>]
Response(status, body) == [raises |-> FALSE, status |-> status, body |-> body]

LocChars == {"a", "n", "N", "y", " "}
Locations == {None} \cup {Some(s) : s \in SeqsUpTo(LocChars, MaxLoc)}

SkillArgs ==
    {<<>>,
     << <<"N", " ", "y">> >>,
     << <<"a", " ", " ", "B">>, <<"c">> >>,
     << <<"a", "n", "y">> >>}

InputChars == {"A", " ", ","}
SkillInputs == {None} \cup {Some(s) : s \in SeqsUpTo(InputChars, MaxInput)}
FormLocations == {None, Some(<<"N", " ", "a">>)}
Forms == [skills : SkillInputs, location : FormLocations]
EmptyForm == [skills |-> None, location |-> None]
Requests ==
    {[method |-> "GET", form |-> EmptyForm]} \cup
    {[method |-> "POST", form |-> f] : f \in Forms}

HandlerNets ==
    {ConnectionRefused,
     Response(200, <<>>),
     Response(200, PageOf(<<"ok", "noTitle", "plain">>)),
     Response(200, PageOf(<<"ok", "noAnchor">>)),
     Response(404, PageOf(<<"ok">>))}

----------------------------------------------------------------------------
(* The request handler: one action per request method *)

Handle(meth) ==
    LET r == index(meth, request.form, job_listings, net)
    IN  /\ request.method = meth
        /\ method' = meth
        /\ skills' = r.skills
        /\ location' = r.location
        /\ url' = r.url
        /\ gets' = r.gets
        /\ fetch_calls' = r.fetch_calls
        /\ matcher_calls' = r.matcher_calls
        /\ internships' = r.internships
        /\ job_suggestions' = r.job_suggestions
        /\ raised' = r.raised
        /\ page' = r.page
        /\ UNCHANGED <<job_listings, net, request>>

Get == Handle("GET")

Post == Handle("POST")

Fresh ==
    /\ method = "none"
    /\ url = <<>>
    /\ gets = 0
    /\ fetch_calls = 0
    /\ matcher_calls = <<>>
    /\ internships = <<>>
    /\ job_suggestions = <<>>
    /\ raised = "none"
    /\ page = NoPage

Init ==
    /\ job_listings \in Datasets(MaxHandlerRows, {TRUE})
    /\ net \in HandlerNets
    /\ request \in Requests
    /\ skills = <<>>
    /\ location = None
    /\ Fresh

Next == Get \/ Post

Spec == Init /\ [][Next]_vars

----------------------------------------------------------------------------
(* get_job_suggestions called on its own *)

MatchCall ==
    /\ method' = "CALL"
    /\ job_suggestions' = get_job_suggestions(skills, job_listings)
    /\ matcher_calls' = <<skills>>
    /\ UNCHANGED <<job_listings, net, request, skills, location, url, gets, fetch_calls,
                   internships, raised, page>>

InitMatcher ==
    /\ job_listings \in Datasets(MaxRows, {TRUE}) \cup Datasets(MaxHandlerRows, {FALSE})
    /\ request = [method |-> "none", form |-> EmptyForm]
    /\ skills \in SkillLists
    /\ net = ConnectionRefused
    /\ location = None
    /\ Fresh

NextMatcher == MatchCall

SpecMatcher == InitMatcher /\ [][NextMatcher]_vars

----------------------------------------------------------------------------
(* fetch_internships called on its own *)

FetchCall ==
    LET r == fetch_internships(skills, location, net)
    IN  /\ method' = "CALL"
        /\ url' = r.url
        /\ gets' = r.gets
        /\ fetch_calls' = 1
        /\ internships' = r.result
        /\ raised' = r.raised
        /\ UNCHANGED <<job_listings, net, request, skills, location, matcher_calls,
                       job_suggestions, page>>

\* either the arguments vary over a few responses, or the response varies
InitFetch ==
    /\ job_listings = <<>>
    /\ request = [method |-> "none", form |-> EmptyForm]
    /\ \/ /\ skills \in SkillArgs
          /\ location \in Locations
          /\ net \in HandlerNets
       \/ /\ skills = << <<"a">> >>
          /\ location = None
          /\ \/ net \in HandlerNets
             \/ \E k \in 0..MaxBlocks :
                    \E O \in OddPositions(k, MaxOdd) :
                        \E f \in [O -> OddKinds] :
                            net = Response(200, PageOf(PageKinds(k, O, f)))
    /\ Fresh

NextFetch == FetchCall

SpecFetch == InitFetch /\ [][NextFetch]_vars

----------------------------------------------------------------------------
(* Properties of get_job_suggestions, under SpecMatcher *)

\* the normalised skill sets of a user list and of a dataset row
UserSkillSet(S) == {StrLower(StrStrip(S[i])) : i \in DOMAIN S}

RequiredSkillSet(R) ==
    LET parts == StrSplit(R["Required_Skills"], <<",", " ">>)
    IN  {StrLower(StrStrip(parts[i])) : i \in DOMAIN parts}

\* row i of the dataset shares a normalised skill with the user's list
Overlap(i) == UserSkillSet(skills) \cap RequiredSkillSet(job_listings[i]) /= {}

\* row i of the dataset is in the returned list
Returned(i) ==
    \E j \in DOMAIN job_suggestions :
        job_suggestions[j].title = job_listings[i]["Job_Title"]

\* the numbers of the overlapping rows among rows 1..n, in increasing order
RECURSIVE OverlapRows(_)
OverlapRows(n) ==
    IF n = 0 THEN <<>>
    ELSE IF Overlap(n) THEN Append(OverlapRows(n - 1), n) ELSE OverlapRows(n - 1)

MatcherReturned == method = "CALL" /\ matcher_calls /= <<>>

\* C1 as stated: after get_job_suggestions(S), a dataset row is in the
\* result if and only if its normalised required skills and the normalised
\* skills of S intersect, whatever the number of matching rows.
C1_ReturnedIffOverlap ==
    MatcherReturned =>
        \A i \in DOMAIN job_listings : Returned(i) <=> Overlap(i)

\* C1 amended: a dataset row is in the result if and only if its normalised
\* required skills and the normalised skills of S intersect and fewer than
\* 10 rows before it do (it is the j-th overlapping row for some j <= 10).
C1_ReturnedIffOverlapWithinLimit ==
    MatcherReturned =>
        LET O == OverlapRows(Len(job_listings))
        IN  \A i \in DOMAIN job_listings :
                Returned(i) <=>
                    \E j \in DOMAIN O : O[j] = i /\ j - 1 < SuggestionLimit

\* an eleventh matching row is left out, and a matching row is returned
\* whose match needs both the trim and the lower-casing
C1_Witness ==
    /\ MatcherReturned
    /\ \E i \in DOMAIN job_listings : Overlap(i) /\ ~Returned(i)
    /\ \E i \in DOMAIN job_listings :
          /\ Returned(i)
          /\ Range(skills) \cap Range(StrSplit(job_listings[i]["Required_Skills"],
                                               <<",", " ">>)) = {}

\* C2: get_job_suggestions returns at most 10 rows; the j-th returned row is
\* the j-th matching row of the dataset, carrying that row's fields, so the
\* result is the first 10 matching rows in dataset order.
C2_FirstTenInOrder ==
    MatcherReturned =>
        LET O == OverlapRows(Len(job_listings))
        IN  /\ Len(job_suggestions) <= SuggestionLimit
            /\ Len(job_suggestions) <= Len(O)
            /\ Len(job_suggestions) = SuggestionLimit \/ Len(job_suggestions) = Len(O)
            /\ \A j \in DOMAIN job_suggestions :
                  /\ job_suggestions[j].title = job_listings[O[j]]["Job_Title"]
                  /\ job_suggestions[j].skills = job_listings[O[j]]["Required_Skills"]
            /\ \A j, k \in DOMAIN job_suggestions :
                  j < k => job_suggestions[j].title < job_suggestions[k].title

\* ten rows returned out of more than ten matching ones, and a
\* non-matching row lies between two returned rows
C2_Witness ==
    /\ MatcherReturned
    /\ Len(job_suggestions) = SuggestionLimit
    /\ Len(OverlapRows(Len(job_listings))) > SuggestionLimit
    /\ \E i \in DOMAIN job_listings :
          i > 1 /\ i < Len(job_listings) /\ ~Overlap(i)
          /\ Returned(i - 1) /\ Returned(i + 1)

----------------------------------------------------------------------------
(* Properties of fetch_internships, under SpecFetch *)

FetchReturned == method = "CALL" /\ fetch_calls = 1

\* a block of the expected shape: a title heading, and a first anchor with href
WellFormed(listing) ==
    /\ listing.h3
    /\ listing.anchors /= <<>>
    /\ listing.anchors[1].href

\* the blocks fetch_internships looks at
FirstBlocks ==
    {i \in DOMAIN net.body : i <= ListingLimit}

\* C3: whatever the page, fetch_internships returns at most 10 entries.
C3_AtMostTenEntries ==
    FetchReturned => Len(internships) <= ListingLimit

\* a page of more than 10 blocks, the first 10 well-formed, gives 10 entries
C3_Witness ==
    /\ FetchReturned
    /\ ~net.raises
    /\ Len(net.body) > ListingLimit
    /\ \A i \in DOMAIN net.body : WellFormed(net.body[i])
    /\ Len(internships) = ListingLimit

\* the search term and the location the URL is built from
SearchTerm == IF skills = <<>> THEN InternshipWord ELSE skills[1]

IsAnySentinel(s) ==
    /\ Len(s) = 3
    /\ s[1] \in {"a", "A"}
    /\ s[2] \in {"n", "N"}
    /\ s[3] \in {"y", "Y"}

HasLocationSegment ==
    /\ ~location.isNone
    /\ location.str /= <<>>
    /\ ~IsAnySentinel(location.str)

\* t is s lower-cased with spaces replaced by hyphens, character by character
IsSlug(t, s) ==
    /\ Len(t) = Len(s)
    /\ \A i \in DOMAIN s :
          /\ s[i] = " " => t[i] = "-"
          /\ s[i] /= " " => t[i] = Lower(s[i])
          /\ t[i] /= " "
          /\ t[i] \notin {"A", "B", "C", "N", "Y"}

\* C5: the URL is the site prefix ending in 'keywords-', then the first
\* skill (or 'internship') lower-cased and hyphenated; a location of None,
\* '' or 'any' in any letter case adds nothing, any other location adds
\* exactly one '/location-' followed by the location lower-cased and
\* hyphenated.
C5_UrlSegments ==
    FetchReturned =>
        LET k == Len(SearchTerm)
        IN  /\ Len(url) >= 1 + k
            /\ url[1] = UrlBase
            /\ IsSlug(SubSeq(url, 2, 1 + k), SearchTerm)
            /\ ~HasLocationSegment => Len(url) = 1 + k
            /\ HasLocationSegment =>
                  /\ Len(url) = 2 + k + Len(location.str)
                  /\ url[2 + k] = LocationPrefix
                  /\ IsSlug(SubSeq(url, 3 + k, Len(url)), location.str)
            /\ Cardinality({i \in DOMAIN url : url[i] = LocationPrefix})
                   = IF HasLocationSegment THEN 1 ELSE 0

\* 'any' in mixed case adds no segment, after a first skill with a space
\* and a capital in it
C5_Witness ==
    /\ FetchReturned
    /\ ~location.isNone
    /\ IsAnySentinel(location.str)
    /\ location.str /= AnyWord
    /\ skills /= <<>>
    /\ \E i \in DOMAIN skills[1] : skills[1][i] = " "
    /\ \E i \in DOMAIN skills[1] : skills[1][i] /= Lower(skills[1][i])
    /\ Len(url) = 1 + Len(skills[1])

\* C7 as stated: a block among the first 10 that lacks its title heading,
\* its anchor or the anchor's href is skipped alone: the entries returned
\* are those of the well-formed blocks among the first 10, in page order.
C7_MalformedSkippedAlone ==
    (FetchReturned /\ ~net.raises) =>
        /\ \A i \in FirstBlocks :
              WellFormed(net.body[i]) =>
                  \E j \in DOMAIN internships : internships[j].title = net.body[i].id
        /\ \A j \in DOMAIN internships :
              \E i \in FirstBlocks :
                  WellFormed(net.body[i]) /\ internships[j].title = net.body[i].id
        /\ \A j, k \in DOMAIN internships :
              j < k => internships[j].title < internships[k].title

\* C8 as stated: a response with a status outside 200..299 gives an empty
\* sequence, whatever its body.
C8_Non2xxGivesEmpty ==
    (FetchReturned /\ ~net.raises /\ net.status \notin 200..299) =>
        internships = <<>>

----------------------------------------------------------------------------
(* Properties of index and the template, under Spec *)

Processed == method = "POST" /\ raised = "none"

\* the submitted skills field, when there is one
Submitted == request.form.skills.str

\* the field holds commas and spaces only: it parses to no skill
OnlySeparators == \A i \in DOMAIN Submitted : Submitted[i] \in {",", " "}

\* C4: a POST whose skills field parses to the empty sequence makes no
\* outbound call, hands an empty internship list to the template, and
\* still invokes get_job_suggestions, with the empty list.
C4_EmptySkillsNoFetch ==
    (method = "POST" /\ ~request.form.skills.isNone /\ OnlySeparators) =>
        /\ raised = "none"
        /\ skills = <<>>
        /\ gets = 0
        /\ fetch_calls = 0
        /\ url = <<>>
        /\ internships = <<>>
        /\ page.rendered
        /\ page.internship_cards = <<>>
        /\ matcher_calls = << <<>> >>

\* a field of separators only, not the empty string
C4_Witness ==
    /\ method = "POST"
    /\ ~request.form.skills.isNone
    /\ OnlySeparators
    /\ \E i \in DOMAIN Submitted : Submitted[i] = ","
    /\ \E i \in DOMAIN Submitted : Submitted[i] = " "
    /\ gets = 0
    /\ matcher_calls = << <<>> >>

\* C6: when the GET of fetch_internships fails with a network error, the
\* function returns [] and nothing is raised, so the POST handler goes on to
\* the matcher and renders.
C6_NetworkErrorGivesEmpty ==
    (method = "POST" /\ fetch_calls = 1 /\ net.raises) =>
        /\ internships = <<>>
        /\ raised = "none"
        /\ Len(matcher_calls) = 1
        /\ page.rendered

\* a POST with skills, the network down, and job suggestions rendered
C6_Witness ==
    /\ method = "POST"
    /\ fetch_calls = 1
    /\ gets = 1
    /\ net.raises
    /\ internships = <<>>
    /\ job_suggestions /= <<>>
    /\ page.rendered
    /\ page.job_cards /= <<>>

\* a panel shows one card per entry, or the message when there is none
PanelShows(cards, msg, entries) ==
    IF entries /= <<>>
    THEN /\ ~msg
         /\ Len(cards) = Len(entries)
         /\ \A i \in DOMAIN entries : cards[i].title = entries[i].title
    ELSE msg /\ cards = <<>>

\* C9 as stated: after a processed POST each panel shows one card per entry
\* when its sequence is non-empty and the 'no results' message when it is
\* empty, also when both sequences are empty.
C9_PanelsAlways ==
    Processed =>
        /\ page.rendered
        /\ PanelShows(page.internship_cards, page.internship_msg, internships)
        /\ PanelShows(page.job_cards, page.job_msg, job_suggestions)

\* C9 amended: when at least one of the two sequences is non-empty, each
\* panel shows one card per entry or, for an empty sequence, the message;
\* when both are empty the results section is left out: no card, no message.
C9_PanelsWhenAnyResult ==
    Processed =>
        /\ page.rendered
        /\ (internships /= <<>> \/ job_suggestions /= <<>>) =>
              /\ page.results_section
              /\ PanelShows(page.internship_cards, page.internship_msg, internships)
              /\ PanelShows(page.job_cards, page.job_msg, job_suggestions)
        /\ (internships = <<>> /\ job_suggestions = <<>>) =>
              /\ ~page.results_section
              /\ ~page.internship_msg /\ ~page.job_msg
              /\ page.internship_cards = <<>> /\ page.job_cards = <<>>

\* internships found, no job suggestion: cards on one side, message on the other
C9_Witness ==
    /\ Processed
    /\ internships /= <<>>
    /\ job_suggestions = <<>>
    /\ Len(page.internship_cards) = Len(internships)
    /\ page.job_msg

\* the characters of the field that are not separators
HasSkillText ==
    /\ ~request.form.skills.isNone
    /\ \E i \in DOMAIN Submitted : Submitted[i] \notin {",", " "}

\* C10: every invocation of fetch_internships performs exactly one GET, also
\* when it fails; a POST performs one GET when the field holds a skill and
\* none otherwise, and a GET request performs none.
C10_OneGetPerFetch ==
    /\ gets = fetch_calls
    /\ gets <= 1
    /\ method = "GET" => gets = 0
    /\ (method = "POST" /\ HasSkillText) => gets = 1
    /\ (method = "POST" /\ ~HasSkillText) => gets = 0

\* a POST whose single GET failed
C10_Witness ==
    /\ method = "POST"
    /\ HasSkillText
    /\ net.raises
    /\ gets = 1
    /\ fetch_calls = 1

====
